---- MODULE Spec2Model ----
(***************************************************************************)
(* Time-entry lifecycle, auto-clockout and correction workflow of the      *)
(* time-clock application.                                                 *)
(*                                                                         *)
(* Time is counted in whole hours since a Sunday 00:00 (local).  Every     *)
(* request handler that runs inside a database transaction is split into   *)
(* the step that reads (the transaction's snapshot) and the step that      *)
(* writes and commits; requests of different callers interleave between    *)
(* the two.  The store gives snapshot isolation: a write to a document     *)
(* that another transaction committed after the writer's snapshot is a     *)
(* write conflict (a transient transaction error), inserts of different    *)
(* documents never conflict.                                               *)
(***************************************************************************)
EXTENDS Integers, Sequences, FiniteSets, TLC

\* ---- bounds of the model ------------------------------------------------
MaxEntries == 2
MaxReq == 2
MaxTicks == 2
MaxSelected == 1
MaxAdminEntries == 1

\* ---- program constants --------------------------------------------------
Null == -1
HoursPerDay == 24
HighPriorityDays == 3
MediumPriorityDays == 1
DaysPerWeek == 7
ClosingHourMonSat == 20
ClosingHourSunday == 18

\* the model starts on a Saturday at 19:00, an hour before closing time
SaturdayEvening == 6 * HoursPerDay + 19

VARIABLES employees, entries, now, req, resp, watch

vars == <<employees, entries, now, req, resp, watch>>

Req == 1..MaxReq
EmpIds == {1, 2}
InputEmpIds == {1, 2, 3}

\* the times a caller may name: an hour ago, now, in an hour
TimeInputs == {now - 1, now, now + 1}

\* the lists a caller of the selective auto-clockout may send
SelectedLists(n) ==
    UNION {[1..k -> [emp : EmpIds, time : TimeInputs]] : k \in 1..n}

SelectedInputs == SelectedLists(MaxSelected)

BatchActions == {"mark-correct", "batch-correct", "other"}

\* ---- business hours (auto-clockout.ts) ------------------------------------
getDay(t) == (t \div HoursPerDay) % DaysPerWeek

setHours(t, h) == (t \div HoursPerDay) * HoursPerDay + h

\* variant that closes at 18:00 on every day of the week
getAutoClockoutTimeSunday(t) == setHours(t, ClosingHourSunday)

\* variant that closes at 20:00 on every day of the week
getAutoClockoutTimeWeekday(t) == setHours(t, ClosingHourMonSat)

getAutoClockoutTime(t) ==
    IF getDay(t) = 0
    THEN setHours(t, ClosingHourSunday)
    ELSE setHours(t, ClosingHourMonSat)

\* getNextAutoClockoutTime: the loop starts at midnight of the day after
\* fromDate and runs while nextDate is not a Sunday
RECURSIVE NextBusinessDay(_, _)
NextBusinessDay(nextDate, fromDate) ==
    IF getDay(nextDate) # 0
    THEN IF getAutoClockoutTime(nextDate) > fromDate
         THEN getAutoClockoutTime(nextDate)
         ELSE NextBusinessDay(nextDate + HoursPerDay, fromDate)
    ELSE getAutoClockoutTime(nextDate)

getNextAutoClockoutTime(fromDate) ==
    NextBusinessDay(setHours(fromDate + HoursPerDay, 0), fromDate)

\* variant that waits until the closing hour is over
shouldAutoClockoutLater(t) == t > getAutoClockoutTime(t)

shouldAutoClockout(t) == t >= getAutoClockoutTime(t)

\* ---- TimeEntry documents --------------------------------------------------
NewTimeEntry(e, t) ==
    [emp |-> e, clockIn |-> t, clockOut |-> Null, hoursWorked |-> Null,
     isAutoClockOut |-> FALSE, needsReview |-> FALSE,
     originalClockOut |-> Null, adminCorrected |-> FALSE,
     correctedBy |-> Null, updatedAt |-> t]

\* diffMs / (1000 * 60 * 60), with times counted in hours
HoursBetween(clockIn, clockOut) == clockOut - clockIn

ActiveEntries(es, e) ==
    {i \in DOMAIN es : es[i].emp = e /\ es[i].clockOut = Null}

OpenEntries(es) == {i \in DOMAIN es : es[i].clockOut = Null}

Min(S) == CHOOSE x \in S : \A y \in S : x <= y

\* the documents of S in the order the store returns them (insertion order)
RECURSIVE InOrder(_)
InOrder(S) ==
    IF S = {} THEN <<>> ELSE <<Min(S)>> \o InOrder(S \ {Min(S)})

\* findOne: the first matching document
FindOne(S) == Min(S)

\* ---- requests in flight ---------------------------------------------------
Req0 ==
    [op |-> "none", pc |-> "idle", emp |-> 0, admin |-> 0, time |-> 0,
     mark |-> FALSE, target |-> 0, snap |-> {}, items |-> <<>>, plan |-> <<>>,
     ids |-> {}, stale |-> {}, count |-> 0, errors |-> <<>>, closed |-> <<>>,
     targetDate |-> 0, missing |-> {}, success |-> TRUE]

\* the response of the request that returned in the step just taken; a
\* specification that states nothing about responses leaves them unobserved
\* (watch = FALSE)
NoResp ==
    [op |-> "none", status |-> "none", target |-> 0, snap |-> {}, count |-> 0,
     errors |-> <<>>, closed |-> <<>>, groups |-> <<>>]

Observed(rec) == IF watch THEN rec ELSE NoResp

Done(op, status) == [NoResp EXCEPT !.op = op, !.status = status]

\* a new request takes the first free slot
Free(r) == req[r].pc = "idle" /\ \A q \in 1..(r - 1) : req[q].pc # "idle"

\* request r returns rec to its caller
Return(r, rec) ==
    /\ req' = [req EXCEPT ![r] = Req0]
    /\ resp' = Observed(rec)

\* request r goes on with the local state rec
Continue(r, rec) ==
    /\ req' = [req EXCEPT ![r] = rec]
    /\ resp' = NoResp

InFlight(op) == {q \in Req : req[q].op = op /\ req[q].pc = "write"}

\* the documents a transaction in flight is going to write
WriteSet(q) ==
    IF req[q].pc # "write" THEN {}
    ELSE IF req[q].op \in {"clockOut", "correct"} THEN {req[q].target}
    ELSE IF req[q].op = "selective"
    THEN {req[q].plan[k].entry : k \in DOMAIN req[q].plan} \ {0}
    ELSE req[q].snap

\* variant without write conflicts: the other transactions do not notice
CommitUnnoticed(r, es, W, rec) ==
    /\ entries' = es
    /\ req' = [req EXCEPT ![r] = Req0]
    /\ resp' = Observed(rec)

\* request r commits writes to the documents W: every other transaction whose
\* snapshot is older now holds a stale version of them
Commit(r, es, W, rec) ==
    /\ entries' = es
    /\ req' = [q \in Req |->
                 IF q = r THEN Req0
                 ELSE [req[q] EXCEPT !.stale = @ \cup (W \cap WriteSet(q))]]
    /\ resp' = Observed(rec)

\* ---- ClockIn ----------------------------------------------------------------
ClockInStart(r, e) ==
    /\ Free(r)
    /\ IF e \notin DOMAIN employees
       THEN Return(r, Done("clockIn", "EmployeeNotFound"))
       ELSE IF ActiveEntries(entries, e) # {}
       THEN Return(r, Done("clockIn", "AlreadyClockedIn"))
       ELSE /\ Len(entries) + Cardinality(InFlight("clockIn")) < MaxEntries
            /\ Continue(r, [Req0 EXCEPT !.op = "clockIn", !.pc = "write",
                                        !.emp = e])
    /\ UNCHANGED <<employees, entries, now, watch>>

ClockInCommit(r) ==
    /\ req[r].op = "clockIn" /\ req[r].pc = "write"
    /\ Commit(r, Append(entries, NewTimeEntry(req[r].emp, now)), {},
              [Done("clockIn", "ok") EXCEPT !.target = Len(entries) + 1])
    /\ UNCHANGED <<employees, now, watch>>

\* ---- ClockOut ---------------------------------------------------------------
\* the reads of the transaction body: the employee and the active entry
ClockOutRead(r, e) ==
    IF e \notin DOMAIN employees
    THEN Return(r, Done("clockOut", "EmployeeNotFound"))
    ELSE IF ActiveEntries(entries, e) = {}
    THEN Return(r, Done("clockOut", "NoActiveClockIn"))
    ELSE Continue(r, [Req0 EXCEPT !.op = "clockOut", !.pc = "write", !.emp = e,
                                  !.target = FindOne(ActiveEntries(entries, e))])

ClockOutUpdate(ent, t) ==
    [ent EXCEPT !.clockOut = t,
                !.hoursWorked = HoursBetween(ent.clockIn, t),
                !.updatedAt = t]

ClockOutStart(r, e) ==
    /\ Free(r)
    /\ ClockOutRead(r, e)
    /\ UNCHANGED <<employees, entries, now, watch>>

ClockOutCommit(r) ==
    /\ req[r].op = "clockOut" /\ req[r].pc = "write"
    /\ IF req[r].target \in req[r].stale
       THEN \* write conflict: withTransaction runs the body again
            /\ ClockOutRead(r, req[r].emp)
            /\ UNCHANGED entries
       ELSE LET i == req[r].target IN
            Commit(r, [entries EXCEPT ![i] = ClockOutUpdate(@, now)], {i},
                   [Done("clockOut", "ok") EXCEPT !.target = i])
    /\ UNCHANGED <<employees, now, watch>>

\* ---- RunAutoClockout (performAutoClockout) ------------------------------------
\* variants of the update, against which the properties below are tried: one that
\* does not flag the entry for review, one that does not set clockOut
AutoClockoutUpdateUnflagged(ent, act, t) ==
    [ent EXCEPT !.clockOut = act,
                !.isAutoClockOut = TRUE,
                !.updatedAt = t]

AutoClockoutUpdateStillOpen(ent, act, t) ==
    [ent EXCEPT !.isAutoClockOut = TRUE,
                !.needsReview = TRUE,
                !.updatedAt = t]

AutoClockoutUpdate(ent, act, t) ==
    [ent EXCEPT !.clockOut = act,
                !.isAutoClockOut = TRUE,
                !.needsReview = TRUE,
                !.updatedAt = t]

\* hoursWorked of the returned document, `updatedEntry.hoursWorked || 0`
OrZero(h) == IF h = Null THEN 0 ELSE h

ClosedItem(es, i) ==
    [entry |-> i, emp |-> es[i].emp, hoursWorked |-> OrZero(es[i].hoursWorked)]

ErrorItem(kind, i, e) == [kind |-> kind, entry |-> i, emp |-> e]

AutoResult(count, errors, closed) ==
    [NoResp EXCEPT !.op = "auto",
                   !.status = IF errors = <<>> THEN "ok" ELSE "failed",
                   !.count = count, !.errors = errors, !.closed = closed]

\* `const autoClockoutTime = getAutoClockoutTime(targetDate)`
AutoClockoutTimeOf(targetDate) == getAutoClockoutTime(targetDate)

\* populate('employeeId'): the entries of S whose employee is no longer
\* stored come back with employeeId = null
Unpopulated(es, S) == {i \in S : es[i].emp \notin DOMAIN employees}

\* the errors of one pass of the loop over snap: `entry.employeeId.toString()`
\* throws for an entry without employee, the update throws from the first
\* write conflict on
LoopErrors(es, snap, missing, firstBad) ==
    LET ks == InOrder({i \in snap : i \in missing \/ i >= firstBad})
    IN [j \in DOMAIN ks |->
          ErrorItem(IF ks[j] >= firstBad THEN "failed" ELSE "noEmployee",
                    ks[j], es[ks[j]].emp)]

\* the entries one pass of the loop pushes to clockedOutEmployees
LoopListed(snap, missing, firstBad) ==
    InOrder({i \in snap : i \notin missing /\ i < firstBad})

\* the body's read: every entry with clockOut = null.  With none the loop
\* does nothing and the empty transaction commits.
AutoClockoutRead(r, targetDate, count, errors, closed) ==
    LET snap == OpenEntries(entries) IN
    IF snap = {}
    THEN Return(r, AutoResult(count, errors, closed))
    ELSE Continue(r, [Req0 EXCEPT !.op = "auto", !.pc = "write",
                                  !.targetDate = targetDate,
                                  !.time = AutoClockoutTimeOf(targetDate),
                                  !.snap = snap,
                                  !.missing = Unpopulated(entries, snap),
                                  !.count = count,
                                  !.errors = errors, !.closed = closed])

\* dry run: reports the open entries, writes nothing
AutoClockoutDryRun(r, act) ==
    LET snap == OpenEntries(entries)
        missing == Unpopulated(entries, snap)
        listed == LoopListed(snap, missing, Len(entries) + 1)
    IN Return(r, [AutoResult(0,
                    LoopErrors(entries, snap, missing, Len(entries) + 1),
                    [k \in DOMAIN listed |->
                       [entry |-> listed[k], emp |-> entries[listed[k]].emp,
                        hoursWorked |->
                          HoursBetween(entries[listed[k]].clockIn, act)]])
                  EXCEPT !.op = "dryRun"])

\* POST /api/auto-clockout, action 'trigger'
AutoClockoutTrigger(r, targetDate, dryRun) ==
    /\ Free(r)
    /\ IF dryRun
       THEN AutoClockoutDryRun(r, AutoClockoutTimeOf(targetDate))
       ELSE AutoClockoutRead(r, targetDate, 0, <<>>, <<>>)
    /\ UNCHANGED <<employees, entries, now, watch>>

\* checkAndPerformAutoClockout
CheckAndRun(r) ==
    /\ Free(r)
    /\ IF ~shouldAutoClockout(now)
       THEN Return(r, [AutoResult(0, <<>>, <<>>) EXCEPT !.op = "check"])
       ELSE AutoClockoutRead(r, now, 0, <<>>, <<>>)
    /\ UNCHANGED <<employees, entries, now, watch>>

\* enforceNoOvertimePolicy
EnforceNoOvertimeNow(r) ==
    /\ Free(r)
    /\ AutoClockoutRead(r, getAutoClockoutTime(now), 0, <<>>, <<>>)
    /\ UNCHANGED <<employees, entries, now, watch>>

\* the loop over the snapshot and the commit.  An update of a document that
\* was committed by another transaction after the snapshot is a write
\* conflict: the per-entry catch records it, the transaction is aborted, every
\* later update of the loop fails too, the commit fails with a transient
\* error and withTransaction runs the body again with the same result object.
AutoClockoutCommit(r) ==
    /\ req[r].op = "auto" /\ req[r].pc = "write"
    /\ LET snap == req[r].snap
           missing == req[r].missing
           bad == snap \cap req[r].stale
           act == req[r].time
       IN IF bad = {}
          THEN LET es == [i \in DOMAIN entries |->
                            IF i \in snap
                            THEN AutoClockoutUpdate(entries[i], act, now)
                            ELSE entries[i]]
                   listed == LoopListed(snap, missing, Len(entries) + 1)
               IN Commit(r, es, snap,
                         AutoResult(req[r].count + Cardinality(snap),
                             req[r].errors
                               \o LoopErrors(entries, snap, missing,
                                             Len(entries) + 1),
                             req[r].closed \o
                               [k \in DOMAIN listed |-> ClosedItem(es, listed[k])]))
          ELSE LET listed == LoopListed(snap, missing, Min(bad))
               IN /\ AutoClockoutRead(r, req[r].targetDate,
                        req[r].count + Cardinality({i \in snap : i < Min(bad)}),
                        req[r].errors
                          \o LoopErrors(entries, snap, missing, Min(bad)),
                        req[r].closed \o
                          [k \in DOMAIN listed |-> ClosedItem(entries, listed[k])])
                  /\ UNCHANGED entries
    /\ UNCHANGED <<employees, now, watch>>

\* ---- RunSelectiveAutoClockout (performSelectiveAutoClockout) ------------------
\* variant of the update that flags the entry for review
\* a request that names no adminEmployeeId
NotGiven == 0

\* `new mongoose.Types.ObjectId(adminEmployeeId)`: of an undefined argument it
\* makes a newly generated id, which is the id of no document
GeneratedId == Cardinality(InputEmpIds) + 1

ObjectId(id) == IF id = NotGiven THEN GeneratedId ELSE id

SelectiveUpdateFlagged(ent, t, admin, tnow) ==
    [ent EXCEPT !.clockOut = t,
                !.isAutoClockOut = TRUE,
                !.needsReview = TRUE,
                !.adminCorrected = TRUE,
                !.correctedBy = ObjectId(admin),
                !.updatedAt = tnow]

SelectiveUpdate(ent, t, admin, tnow) ==
    [ent EXCEPT !.clockOut = t,
                !.isAutoClockOut = TRUE,
                !.needsReview = FALSE,
                !.adminCorrected = TRUE,
                !.correctedBy = ObjectId(admin),
                !.updatedAt = tnow]

PlanItem(kind, i, e, t) == [kind |-> kind, entry |-> i, emp |-> e, time |-> t]

\* what the loop does with items k.. against the snapshot es, which already
\* holds the loop's own earlier updates
RECURSIVE SelectivePlan(_, _, _, _)
SelectivePlan(es, items, admin, k) ==
    IF k > Len(items) THEN <<>>
    ELSE LET e == items[k].emp
             t == items[k].time
             act == ActiveEntries(es, e)
         IN IF act = {}
            THEN <<PlanItem("noActive", 0, e, t)>>
                   \o SelectivePlan(es, items, admin, k + 1)
            ELSE IF t <= es[FindOne(act)].clockIn
            THEN <<PlanItem("badTime", 0, e, t)>>
                   \o SelectivePlan(es, items, admin, k + 1)
            ELSE <<PlanItem("write", FindOne(act), e, t)>>
                   \o SelectivePlan(
                        [es EXCEPT ![FindOne(act)] = SelectiveUpdate(@, t, admin, now)],
                        items, admin, k + 1)

PlanWrites(plan) == {k \in DOMAIN plan : plan[k].kind = "write"}

PlanErrors(plan, from) ==
    LET ks == InOrder({k \in DOMAIN plan :
                         plan[k].kind # "write" \/ k >= from})
    IN [j \in DOMAIN ks |->
          ErrorItem(IF plan[ks[j]].kind = "write" THEN "failed" ELSE plan[ks[j]].kind,
                    plan[ks[j]].entry, plan[ks[j]].emp)]

PlanClosed(es, plan, before) ==
    LET ks == InOrder({k \in PlanWrites(plan) : k < before})
    IN [j \in DOMAIN ks |-> ClosedItem(es, plan[ks[j]].entry)]

\* result.success at the end of the body: set to false when there are errors
\* and nothing is counted, and never set back to true
SuccessAfterPass(success, count, errors) ==
    success /\ ~(errors # <<>> /\ count = 0)

SelectiveResult(success, count, errors, closed) ==
    [NoResp EXCEPT !.op = "selective",
                   !.status = IF SuccessAfterPass(success, count, errors)
                              THEN "ok" ELSE "failed",
                   !.count = count, !.errors = errors, !.closed = closed]

\* the body's reads against the snapshot taken by its first findOne
SelectiveRead(r, items, admin, success, count, errors, closed) ==
    LET plan == SelectivePlan(entries, items, admin, 1) IN
    IF PlanWrites(plan) = {}
    THEN Return(r, SelectiveResult(success, count,
                                   errors \o PlanErrors(plan, Len(plan) + 1),
                                   closed))
    ELSE Continue(r, [Req0 EXCEPT !.op = "selective", !.pc = "write",
                                  !.admin = admin, !.items = items, !.plan = plan,
                                  !.success = success,
                                  !.count = count, !.errors = errors,
                                  !.closed = closed])

\* `!admin || !admin.isAdmin` of the routes
IsAdmin(a) == a \in DOMAIN employees /\ employees[a].isAdmin

\* `if (adminEmployeeId) { ... if (!admin || !admin.isAdmin) ... }`
AdminCheckRefuses(admin) == admin # NotGiven /\ ~IsAdmin(admin)

\* POST /api/auto-clockout, action 'selective': the admin check of the route,
\* made only when the request names an adminEmployeeId, then the transaction
SelectiveStart(r, items, admin) ==
    /\ Free(r)
    /\ IF AdminCheckRefuses(admin)
       THEN Return(r, Done("selective", "AdminPrivilegesRequired"))
       ELSE SelectiveRead(r, items, admin, TRUE, 0, <<>>, <<>>)
    /\ UNCHANGED <<employees, entries, now, watch>>

SelectiveCommit(r) ==
    /\ req[r].op = "selective" /\ req[r].pc = "write"
    /\ LET plan == req[r].plan
           bad == {k \in PlanWrites(plan) : plan[k].entry \in req[r].stale}
       IN IF bad = {}
          THEN LET es == [i \in DOMAIN entries |->
                            IF \E k \in PlanWrites(plan) : plan[k].entry = i
                            THEN LET k == CHOOSE k \in PlanWrites(plan) :
                                            plan[k].entry = i
                                 IN SelectiveUpdate(entries[i], plan[k].time,
                                                    req[r].admin, now)
                            ELSE entries[i]]
               IN Commit(r, es, {plan[k].entry : k \in PlanWrites(plan)},
                         SelectiveResult(
                           req[r].success,
                           req[r].count + Cardinality(PlanWrites(plan)),
                           req[r].errors \o PlanErrors(plan, Len(plan) + 1),
                           req[r].closed \o PlanClosed(es, plan, Len(plan) + 1)))
          ELSE LET count == req[r].count
                         + Cardinality({k \in PlanWrites(plan) : k < Min(bad)})
                   errors == req[r].errors \o PlanErrors(plan, Min(bad))
               IN
               /\ SelectiveRead(r, req[r].items, req[r].admin,
                     SuccessAfterPass(req[r].success, count, errors),
                     count, errors,
                     req[r].closed \o PlanClosed(entries, plan, Min(bad)))
               /\ UNCHANGED entries
    /\ UNCHANGED <<employees, now, watch>>

\* ---- CorrectEntry (PUT /api/timeentries/[id]/correct) -------------------------
\* variant that overwrites originalClockOut at every correction of the time
OriginalOverwritten(ent) == ent.clockOut

\* originalClockOut after a correction of the time: kept once it is set
OriginalAfterCorrection(ent) ==
    IF ent.originalClockOut = Null /\ ent.isAutoClockOut
    THEN ent.clockOut
    ELSE ent.originalClockOut

\* variant that writes the clockOut of the request also when none is given
CorrectUpdateAlways(ent, admin, newClockOut, t) ==
    [ent EXCEPT !.needsReview = FALSE,
                !.correctedBy = admin,
                !.originalClockOut = OriginalAfterCorrection(ent),
                !.clockOut = newClockOut,
                !.adminCorrected = TRUE,
                !.updatedAt = t]

\* variant that stores the original clock-out also when the entry is only
\* marked as correct
CorrectUpdateStoresOriginal(ent, admin, newClockOut, t) ==
    [ent EXCEPT !.needsReview = FALSE,
                !.correctedBy = admin,
                !.originalClockOut = OriginalAfterCorrection(ent),
                !.clockOut = IF newClockOut = Null THEN @ ELSE newClockOut,
                !.adminCorrected = TRUE,
                !.updatedAt = t]

CorrectUpdate(ent, admin, newClockOut, t) ==
    IF newClockOut = Null
    THEN [ent EXCEPT !.needsReview = FALSE,
                     !.correctedBy = admin,
                     !.adminCorrected = TRUE,
                     !.updatedAt = t]
    ELSE [ent EXCEPT !.needsReview = FALSE,
                     !.correctedBy = admin,
                     !.originalClockOut = OriginalAfterCorrection(ent),
                     !.clockOut = newClockOut,
                     !.adminCorrected = TRUE,
                     !.updatedAt = t]

\* variant of the validation that accepts a clock-out equal to the clock-in
BeforeClockInOnly(ent, newClockOut) == newClockOut < ent.clockIn

\* `newClockOut <= timeEntry.clockIn`
NotAfterClockIn(ent, newClockOut) == newClockOut <= ent.clockIn

\* the body up to the update: admin check, lookup, validation
CorrectRead(r, id, admin, newClockOut, markAsCorrect) ==
    IF ~IsAdmin(admin)
    THEN Return(r, Done("correct", "AdminPrivilegesRequired"))
    ELSE IF id \notin DOMAIN entries
    THEN Return(r, Done("correct", "EntryNotFound"))
    ELSE IF entries[id].clockOut = Null
    THEN Return(r, Done("correct", "EntryStillActive"))
    ELSE IF markAsCorrect /\ newClockOut = Null
    THEN Continue(r, [Req0 EXCEPT !.op = "correct", !.pc = "write", !.target = id,
                                  !.admin = admin, !.time = Null, !.mark = TRUE])
    ELSE IF newClockOut # Null
    THEN IF NotAfterClockIn(entries[id], newClockOut)
         THEN Return(r, Done("correct", "ClockOutBeforeClockIn"))
         ELSE IF newClockOut > now
         THEN Return(r, Done("correct", "FutureClockOut"))
         ELSE Continue(r, [Req0 EXCEPT !.op = "correct", !.pc = "write",
                                       !.target = id, !.admin = admin,
                                       !.time = newClockOut,
                                       !.mark = markAsCorrect])
    ELSE Return(r, Done("correct", "InvalidCorrectionRequest"))

CorrectStart(r, id, admin, newClockOut, markAsCorrect) ==
    /\ Free(r)
    /\ CorrectRead(r, id, admin, newClockOut, markAsCorrect)
    /\ UNCHANGED <<employees, entries, now, watch>>

CorrectCommit(r) ==
    /\ req[r].op = "correct" /\ req[r].pc = "write"
    /\ LET i == req[r].target IN
       IF i \in req[r].stale
       THEN /\ CorrectRead(r, i, req[r].admin, req[r].time, req[r].mark)
            /\ UNCHANGED entries
       ELSE Commit(r, [entries EXCEPT ![i] =
                         CorrectUpdate(@, req[r].admin, req[r].time, now)],
                   {i},
                   [Done("correct", "ok") EXCEPT !.target = i, !.snap = {i},
                                                  !.count = 1])
    /\ UNCHANGED <<employees, now, watch>>

\* ---- BatchCorrect (POST /api/timeentries/needs-review) ------------------------
\* variant of the filter without `clockIn: { $lt: newClockOut }`
BatchMatchClosed(es, ids, action, t) ==
    {i \in DOMAIN es \cap ids : es[i].clockOut # Null}

BatchMatch(es, ids, action, t) ==
    {i \in DOMAIN es \cap ids :
        /\ es[i].clockOut # Null
        /\ action = "batch-correct" => es[i].clockIn < t}

BatchUpdate(ent, action, admin, t, tnow) ==
    IF action = "mark-correct"
    THEN [ent EXCEPT !.needsReview = FALSE,
                     !.correctedBy = admin,
                     !.adminCorrected = TRUE,
                     !.updatedAt = tnow]
    ELSE [ent EXCEPT !.needsReview = FALSE,
                     !.correctedBy = admin,
                     !.clockOut = t,
                     !.adminCorrected = TRUE,
                     !.updatedAt = tnow]

\* the admin check, made before the transaction starts
BatchStart(r, action, ids, admin, t) ==
    /\ Free(r)
    /\ IF ~IsAdmin(admin)
       THEN Return(r, Done("batch", "AdminPrivilegesRequired"))
       ELSE Continue(r, [Req0 EXCEPT !.op = action, !.pc = "update", !.ids = ids,
                                     !.admin = admin, !.time = t])
    /\ UNCHANGED <<employees, entries, now, watch>>

\* the transaction: one updateMany
BatchCommit(r) ==
    /\ req[r].pc = "update"
    /\ LET action == req[r].op
           t == req[r].time
       IN IF action = "mark-correct" \/ (action = "batch-correct" /\ t # Null)
          THEN IF action = "batch-correct" /\ t > now
               THEN /\ Return(r, Done("batch", "FutureClockOut"))
                    /\ UNCHANGED entries
               ELSE LET M == BatchMatch(entries, req[r].ids, action, t) IN
                    Commit(r, [i \in DOMAIN entries |->
                                 IF i \in M
                                 THEN BatchUpdate(entries[i], action, req[r].admin,
                                                  t, now)
                                 ELSE entries[i]],
                           M,
                           [Done(action, "ok") EXCEPT !.snap = M,
                                                       !.count = Cardinality(M)])
          ELSE /\ Return(r, Done("batch", "InvalidAction"))
               /\ UNCHANGED entries
    /\ UNCHANGED <<employees, now, watch>>

\* ---- time -------------------------------------------------------------------
Tick ==
    /\ now < SaturdayEvening + MaxTicks
    /\ now' = now + 1
    /\ resp' = NoResp
    /\ UNCHANGED <<employees, entries, req, watch>>

\* ---- GroupByEmployeeNeedingReview (GET grouped reviews) ----------------------
\* $ceil of (now - updatedAt) / one day
daysSinceReview(ent, t) ==
    (t - ent.updatedAt + HoursPerDay - 1) \div HoursPerDay

Max(S) == CHOOSE x \in S : \A y \in S : x >= y

Priority(oldestReviewDays) ==
    IF oldestReviewDays >= HighPriorityDays THEN "high"
    ELSE IF oldestReviewDays >= MediumPriorityDays THEN "medium"
    ELSE "low"

\* $match needsReview (and the employee filter), $lookup and $unwind of the
\* employee, which drops the entries of an employee that no longer exists
ReviewMatch(es, filter) ==
    {i \in DOMAIN es :
        /\ es[i].needsReview
        /\ filter # 0 => es[i].emp = filter
        /\ es[i].emp \in DOMAIN employees}

ReviewGroups(es, filter, t) ==
    LET M == ReviewMatch(es, filter) IN
    [e \in {es[i].emp : i \in M} |->
       LET G == {i \in M : es[i].emp = e}
           oldest == Max({daysSinceReview(es[i], t) : i \in G})
       IN [entries |-> G,
           totalEntries |-> Cardinality(G),
           oldestReviewDays |-> oldest,
           priority |-> Priority(oldest)]]

GroupByEmployeeNeedingReview(r, filter) ==
    /\ Free(r)
    /\ Return(r, [NoResp EXCEPT
                    !.op = "review", !.status = "ok",
                    !.groups = ReviewGroups(entries, filter, now),
                    !.count = Cardinality({i \in DOMAIN entries :
                                             entries[i].needsReview})])
    /\ UNCHANGED <<employees, entries, now, watch>>

\* ---- specifications -----------------------------------------------------------
InitStore ==
    /\ employees = (1 :> [isAdmin |-> TRUE]) @@ (2 :> [isAdmin |-> FALSE])
    /\ entries = <<>>
    /\ now = SaturdayEvening
    /\ req = [r \in Req |-> Req0]
    /\ resp = NoResp

\* the lifecycle of time entries: clock in, clock out, auto-clockout, review
Init == InitStore /\ watch = TRUE

Lifecycle ==
    \/ \E r \in Req, e \in InputEmpIds : ClockInStart(r, e)
    \/ \E r \in Req : ClockInCommit(r)
    \/ \E r \in Req, e \in InputEmpIds : ClockOutStart(r, e)
    \/ \E r \in Req : ClockOutCommit(r)
    \/ \E r \in Req, dryRun \in BOOLEAN : AutoClockoutTrigger(r, now, dryRun)
    \/ \E r \in Req : CheckAndRun(r)
    \/ \E r \in Req : EnforceNoOvertimeNow(r)
    \/ \E r \in Req : AutoClockoutCommit(r)
    \/ Tick

Next ==
    \/ Lifecycle
    \/ \E r \in Req, f \in {0} \cup EmpIds : GroupByEmployeeNeedingReview(r, f)

Spec == Init /\ [][Next]_vars

\* the lifecycle together with the correction workflow
InitAdmin == InitStore /\ watch = FALSE

AdminEntryIds == 1..(MaxAdminEntries + 1)

Corrections ==
    \/ \E r \in Req, items \in SelectedInputs, a \in EmpIds :
          SelectiveStart(r, items, a)
    \/ \E r \in Req : SelectiveCommit(r)
    \/ \E r \in Req, i \in AdminEntryIds, a \in EmpIds,
          t \in TimeInputs \cup {Null}, m \in BOOLEAN :
          CorrectStart(r, i, a, t, m)
    \/ \E r \in Req : CorrectCommit(r)
    \/ \E r \in Req, act \in BatchActions,
          ids \in SUBSET (1..MaxAdminEntries) \ {{}},
          a \in EmpIds, t \in TimeInputs \cup {Null} :
          BatchStart(r, act, ids, a, t)
    \/ \E r \in Req : BatchCommit(r)

AdminCap == Len(entries) + Cardinality(InFlight("clockIn")) <= MaxAdminEntries

NextAdmin ==
    \/ Lifecycle /\ AdminCap'
    \/ Corrections

SpecAdmin == InitAdmin /\ [][NextAdmin]_vars

\* the correction of single entries, with the responses observed
CorrectEntryIds == 1..(MaxAdminEntries + 1)

NextCorrect ==
    \/ /\ \/ \E r \in Req, e \in InputEmpIds : ClockInStart(r, e)
          \/ \E r \in Req : ClockInCommit(r)
          \/ \E r \in Req, e \in InputEmpIds : ClockOutStart(r, e)
          \/ \E r \in Req : ClockOutCommit(r)
          \/ \E r \in Req : CheckAndRun(r)
          \/ \E r \in Req : AutoClockoutCommit(r)
          \/ Tick
       /\ AdminCap'
    \/ \E r \in Req, i \in CorrectEntryIds, a \in InputEmpIds,
          t \in TimeInputs \cup {Null}, m \in BOOLEAN :
          CorrectStart(r, i, a, t, m)
    \/ \E r \in Req : CorrectCommit(r)

SpecCorrect == Init /\ [][NextCorrect]_vars

\* ---- BuildReport (GET employee report) ----------------------------------------
\* Instants are whole hours; the local time of the process is the instant
\* plus the offset tz of its time zone.  The calendar is the one of a year
\* that is no leap year.
MonthLengths == <<31, 28, 31, 30, 31, 30, 31, 31, 30, 31, 30, 31>>

RECURSIVE DaysBefore(_)
DaysBefore(m) == IF m <= 1 THEN 0 ELSE MonthLengths[m - 1] + DaysBefore(m - 1)

YearDays == DaysBefore(Len(MonthLengths) + 1)

LocalDay(t, tz) == (t + tz) \div HoursPerDay

getFullYear(t, tz) == LocalDay(t, tz) \div YearDays

\* getMonth() + 1
getMonth(t, tz) ==
    CHOOSE m \in DOMAIN MonthLengths :
        /\ DaysBefore(m) <= LocalDay(t, tz) % YearDays
        /\ LocalDay(t, tz) % YearDays < DaysBefore(m + 1)

\* new Date(year, month - 1, day): local midnight of that day
NewDate(year, month, day, tz) ==
    (year * YearDays + DaysBefore(month) + day - 1) * HoursPerDay - tz

getWeekNumber(date, monthStart) ==
    ((date - monthStart) \div HoursPerDay) \div DaysPerWeek + 1

getWeekDateRange(weekNum, monthStart, monthEnd) ==
    LET weekStart == monthStart + (weekNum - 1) * DaysPerWeek * HoursPerDay
        weekEnd == weekStart + (DaysPerWeek - 1) * HoursPerDay
    IN [weekStart |-> weekStart,
        weekEnd |-> IF weekEnd > monthEnd THEN monthEnd ELSE weekEnd]

\* toISOString().split('T')[0]: the date of the instant in UTC
formatDate(t) == t \div HoursPerDay

RECURSIVE SumHours(_, _)
SumHours(es, S) ==
    IF S = {} THEN 0
    ELSE LET i == Min(S) IN OrZero(es[i].hoursWorked) + SumHours(es, S \ {i})

RECURSIVE SumTotals(_, _)
SumTotals(items, k) ==
    IF k > Len(items) THEN 0 ELSE items[k].totalHours + SumTotals(items, k + 1)

\* the query of the report: the closed entries of the employee with
\* hoursWorked set and clockIn in the period
ReportEntries(es, e, startDate, endDate) ==
    {i \in DOMAIN es :
        /\ es[i].emp = e
        /\ startDate <= es[i].clockIn /\ es[i].clockIn <= endDate
        /\ es[i].clockOut # Null
        /\ es[i].hoursWorked # Null}

DailyData(es, weekEntries, d) ==
    [date |-> formatDate(d),
     totalHours |-> SumHours(es, {i \in weekEntries :
                                     formatDate(es[i].clockIn) = formatDate(d)})]

WeeklyData(es, monthEntries, weekNum, monthStart, monthEnd) ==
    LET weekEntries == {i \in monthEntries :
                          getWeekNumber(es[i].clockIn, monthStart) = weekNum}
        range == getWeekDateRange(weekNum, monthStart, monthEnd)
        n == (range.weekEnd - range.weekStart) \div HoursPerDay + 1
        days == [k \in 1..n |->
                   DailyData(es, weekEntries,
                             range.weekStart + (k - 1) * HoursPerDay)]
    IN [weekNumber |-> weekNum, totalHours |-> SumTotals(days, 1), days |-> days]

MonthlyData(es, found, year, currentMonth, tz) ==
    LET monthEntries == {i \in found : getMonth(es[i].clockIn, tz) = currentMonth}
        monthStart == NewDate(year, currentMonth, 1, tz)
        monthEnd == NewDate(year, currentMonth + 1, 0, tz)
        weeksInMonth == getWeekNumber(monthEnd, monthStart)
        weeks == [w \in 1..weeksInMonth |->
                    WeeklyData(es, monthEntries, w, monthStart, monthEnd)]
    IN [month |-> currentMonth, totalHours |-> SumTotals(weeks, 1),
        weeks |-> weeks]

\* month = 0: the whole year
YearlyData(es, e, year, month, tz) ==
    LET startDate == IF month # 0 THEN NewDate(year, month, 1, tz)
                     ELSE NewDate(year, 1, 1, tz)
        endDate == IF month # 0 THEN NewDate(year, month + 1, 1, tz) - 1
                   ELSE NewDate(year + 1, 1, 1, tz) - 1
        found == ReportEntries(es, e, startDate, endDate)
        monthsToProcess == IF month # 0 THEN <<month>>
                           ELSE [m \in DOMAIN MonthLengths |-> m]
        all == [k \in DOMAIN monthsToProcess |->
                  MonthlyData(es, found, year, monthsToProcess[k], tz)]
        months == SelectSeq(all, LAMBDA md : md.totalHours > 0 \/ month # 0)
    IN [year |-> year, totalHours |-> SumTotals(months, 1), months |-> months,
        totalEntries |-> Cardinality(found)]

\* the summary of the response; the average is the fraction hours / entries
Summary(data) ==
    [totalEntries |-> data.totalEntries,
     totalHours |-> data.totalHours,
     averageHoursPerDay |-> IF data.totalEntries > 0
                            THEN <<data.totalHours, data.totalEntries>>
                            ELSE <<0, 1>>,
     daysWorked |-> data.totalEntries]

BuildReport(r, e, year, month, tz) ==
    /\ Free(r)
    /\ IF e \notin DOMAIN employees
       THEN Return(r, Done("report", "EmployeeNotFound"))
       ELSE LET yearlyData == YearlyData(entries, e, year, month, tz) IN
            Return(r, [op |-> "report", status |-> "ok", emp |-> e,
                       year |-> year, month |-> month, tz |-> tz,
                       data |-> yearlyData, summary |-> Summary(yearlyData)])
    /\ UNCHANGED <<employees, entries, now, watch>>

\* the reports of a store that holds closed entries of two years
MaxReportEntries == 2

TzOffsets == {-5, 0, 2}

ReportYears == {1, 2}

ReportMonths == {0, 1}

\* clock-in instants: early and late hours of the seventh of January and of
\* the last day of the year
ReportInstants ==
    {(YearDays + d) * HoursPerDay + h :
        d \in {6, YearDays - 1}, h \in {1, HoursPerDay - 2}}

\* an employee with entries and an id that names no employee
ReportEmpIds == {1, 3}

\* an entry closed by ClockOut after two hours, or closed by the auto-clockout
ReportEntryInputs ==
    {ClockOutUpdate(NewTimeEntry(e, t), t + 2) : e \in EmpIds, t \in ReportInstants}
      \cup {AutoClockoutUpdate(NewTimeEntry(e, t), t + 2, t + 2) :
              e \in EmpIds, t \in ReportInstants}

InitReport ==
    /\ employees = (1 :> [isAdmin |-> TRUE]) @@ (2 :> [isAdmin |-> FALSE])
    /\ entries \in UNION {[1..n -> ReportEntryInputs] : n \in 0..MaxReportEntries}
    /\ \A i, j \in DOMAIN entries : i < j => entries[i].clockIn <= entries[j].clockIn
    /\ now = 3 * YearDays * HoursPerDay
    /\ req = [r \in Req |-> Req0]
    /\ resp = NoResp
    /\ watch = TRUE

NextReport ==
    \E r \in Req, e \in ReportEmpIds, y \in ReportYears, m \in ReportMonths,
       tz \in TzOffsets : BuildReport(r, e, y, m, tz)

SpecReport == InitReport /\ [][NextReport]_vars

\* ---- employees (POST /api/employees, PUT and DELETE /api/employees/[id]) -------
MaxEmployees == 2
MaxVersion == 1

\* adminPin of the employees; 0 as input: no pin in the request
Pins == {1, 2}

EmployeeIds == 1..MaxEmployees

Admins(emps) == {e \in DOMAIN emps : emps[e].isAdmin}

\* the local state of a request on the employee id
EmployeeReq(op, id, pin, isAdmin, v) ==
    [pin |-> pin, isAdmin |-> isAdmin, v |-> v]
      @@ [Req0 EXCEPT !.op = op, !.pc = "write", !.emp = id]

EmployeeOps == {"createEmployee", "updateEmployee", "deleteEmployee"}

\* the employee document a transaction in flight is going to write
EmployeeWriteSet(q) ==
    IF req[q].pc = "write" /\ req[q].op \in {"updateEmployee", "deleteEmployee"}
    THEN {req[q].emp}
    ELSE {}

\* request r commits writes to the employee documents W
CommitEmployees(r, emps, W, rec) ==
    /\ employees' = emps
    /\ req' = [q \in Req |->
                 IF q = r THEN Req0
                 ELSE [req[q] EXCEPT !.stale = @ \cup (W \cap EmployeeWriteSet(q))]]
    /\ resp' = Observed(rec)

\* ids are never used twice: a new document gets an id above every id the
\* store or a request in flight still names
NewEmployeeId ==
    1 + Max(DOMAIN employees
              \cup {entries[i].emp : i \in DOMAIN entries}
              \cup {req[q].emp : q \in Req} \cup {0})

PinTaken(emps, pin, except) ==
    \E o \in DOMAIN emps \ {except} : emps[o].pin = pin

\* POST: the PIN checks of the transaction body
CreateEmployeeStart(r, pin, isAdmin) ==
    /\ Free(r)
    /\ IF PinTaken(employees, pin, 0)
       THEN Return(r, Done("createEmployee", "PinAlreadyExists"))
       ELSE /\ NewEmployeeId + Cardinality({q \in Req : req[q].op = "createEmployee"})
                 <= MaxEmployees
            /\ Continue(r, EmployeeReq("createEmployee", 0, pin, isAdmin, 0))
    /\ UNCHANGED <<employees, entries, now, watch>>

\* POST: Employee.create and the commit
CreateEmployeeCommit(r) ==
    /\ req[r].op = "createEmployee" /\ req[r].pc = "write"
    /\ CommitEmployees(r,
          employees @@ (NewEmployeeId :> [isAdmin |-> req[r].isAdmin,
                                           pin |-> req[r].pin, v |-> 0]),
          {}, [Done("createEmployee", "ok") EXCEPT !.target = NewEmployeeId])
    /\ UNCHANGED <<entries, now, watch>>

\* PUT: the reads of the transaction body
UpdateEmployeeRead(r, id, pin, isAdmin) ==
    IF id \notin DOMAIN employees
    THEN Return(r, Done("updateEmployee", "EmployeeNotFound"))
    ELSE IF pin # 0 /\ PinTaken(employees, pin, id)
    THEN Return(r, Done("updateEmployee", "PinAlreadyExists"))
    ELSE Continue(r, EmployeeReq("updateEmployee", id, pin, isAdmin,
                                 employees[id].v))

UpdateEmployeeStart(r, id, pin, isAdmin) ==
    /\ Free(r)
    /\ id \in DOMAIN employees => employees[id].v < MaxVersion
    /\ UpdateEmployeeRead(r, id, pin, isAdmin)
    /\ UNCHANGED <<employees, entries, now, watch>>

\* updateData and $inc of __v
UpdatedEmployee(emp, pin, isAdmin) ==
    [emp EXCEPT !.isAdmin = isAdmin,
                !.pin = IF pin # 0 THEN pin ELSE @,
                !.v = @ + 1]

\* PUT: findOneAndUpdate({ _id, __v }) and the commit
UpdateEmployeeCommit(r) ==
    /\ req[r].op = "updateEmployee" /\ req[r].pc = "write"
    /\ LET id == req[r].emp IN
       IF id \in req[r].stale
       THEN \* write conflict: withTransaction runs the body again
            /\ UpdateEmployeeRead(r, id, req[r].pin, req[r].isAdmin)
            /\ UNCHANGED employees
       ELSE IF employees[id].v # req[r].v
       THEN /\ Return(r, Done("updateEmployee", "ConcurrentModification"))
            /\ UNCHANGED employees
       ELSE CommitEmployees(r,
               [employees EXCEPT ![id] =
                   UpdatedEmployee(@, req[r].pin, req[r].isAdmin)],
               {id}, [Done("updateEmployee", "ok") EXCEPT !.target = id])
    /\ UNCHANGED <<entries, now, watch>>

\* variant of the check that lets the last admin go
LastAdminIgnored(emps, id) == emps[id].isAdmin /\ Cardinality(Admins(emps)) < 1

\* adminCount <= 1 for an employee that is an admin
LastAdmin(emps, id) == emps[id].isAdmin /\ Cardinality(Admins(emps)) <= 1

\* DELETE: the reads of the transaction body
DeleteEmployeeRead(r, id) ==
    IF id \notin DOMAIN employees
    THEN Return(r, Done("deleteEmployee", "EmployeeNotFound"))
    ELSE IF LastAdmin(employees, id)
    THEN Return(r, Done("deleteEmployee", "CannotDeleteLastAdmin"))
    ELSE Continue(r, EmployeeReq("deleteEmployee", id, 0, FALSE, 0))

DeleteEmployeeStart(r, id) ==
    /\ Free(r)
    /\ DeleteEmployeeRead(r, id)
    /\ UNCHANGED <<employees, entries, now, watch>>

\* findByIdAndDelete
WithoutEmployee(emps, id) == [e \in DOMAIN emps \ {id} |-> emps[e]]

DeleteEmployeeCommit(r) ==
    /\ req[r].op = "deleteEmployee" /\ req[r].pc = "write"
    /\ LET id == req[r].emp IN
       IF id \in req[r].stale
       THEN /\ DeleteEmployeeRead(r, id)
            /\ UNCHANGED employees
       ELSE CommitEmployees(r, WithoutEmployee(employees, id), {id},
               [Done("deleteEmployee", "ok") EXCEPT !.target = id])
    /\ UNCHANGED <<entries, now, watch>>

\* POST /api/bootstrap: countDocuments and the validation of the input (pin 0
\* stands for a missing or malformed PIN); the hashing of the PIN is awaited
\* before the document is saved
BootstrapStart(r, pin) ==
    /\ Free(r)
    /\ IF DOMAIN employees # {}
       THEN Return(r, Done("bootstrap", "AlreadyHasEmployees"))
       ELSE IF pin \notin Pins
       THEN Return(r, Done("bootstrap", "InvalidInput"))
       ELSE /\ NewEmployeeId + Cardinality({q \in Req : req[q].op = "bootstrap"})
                 <= MaxEmployees
            /\ Continue(r, EmployeeReq("bootstrap", 0, pin, TRUE, 0))
    /\ UNCHANGED <<employees, entries, now, watch>>

\* POST /api/bootstrap: admin.save(), an insert outside any transaction
BootstrapCommit(r) ==
    /\ req[r].op = "bootstrap" /\ req[r].pc = "write"
    /\ CommitEmployees(r,
          employees @@ (NewEmployeeId :> [isAdmin |-> TRUE,
                                           pin |-> req[r].pin, v |-> 0]),
          {}, [Done("bootstrap", "ok") EXCEPT !.target = NewEmployeeId])
    /\ UNCHANGED <<entries, now, watch>>

\* the empty store of a new installation
InitEmpty ==
    /\ employees = <<>>
    /\ entries = <<>>
    /\ now = SaturdayEvening
    /\ req = [r \in Req |-> Req0]
    /\ resp = NoResp
    /\ watch = TRUE

\* the store after the bootstrap: the first admin
InitEmployees ==
    /\ employees = (1 :> [isAdmin |-> TRUE, pin |-> 1, v |-> 0])
    /\ entries = <<>>
    /\ now = SaturdayEvening
    /\ req = [r \in Req |-> Req0]
    /\ resp = NoResp
    /\ watch = TRUE

NextEmployees ==
    \/ \E r \in Req, pin \in Pins, a \in BOOLEAN : CreateEmployeeStart(r, pin, a)
    \/ \E r \in Req : CreateEmployeeCommit(r)
    \/ \E r \in Req, id \in EmployeeIds, pin \in Pins \cup {0}, a \in BOOLEAN :
          UpdateEmployeeStart(r, id, pin, a)
    \/ \E r \in Req : UpdateEmployeeCommit(r)
    \/ \E r \in Req, id \in EmployeeIds : DeleteEmployeeStart(r, id)
    \/ \E r \in Req : DeleteEmployeeCommit(r)

SpecEmployees == InitEmployees /\ [][NextEmployees]_vars

\* bootstrap requests on a store that starts empty and whose employees are
\* edited and deleted
NextBootstrap ==
    \/ \E r \in Req, pin \in Pins \cup {0} : BootstrapStart(r, pin)
    \/ \E r \in Req : BootstrapCommit(r)
    \/ \E r \in Req, id \in EmployeeIds, a \in BOOLEAN :
          UpdateEmployeeStart(r, id, 0, a)
    \/ \E r \in Req : UpdateEmployeeCommit(r)
    \/ \E r \in Req, id \in EmployeeIds : DeleteEmployeeStart(r, id)
    \/ \E r \in Req : DeleteEmployeeCommit(r)

SpecBootstrap == InitEmpty /\ [][NextBootstrap]_vars

\* the selective auto-clockout with lists of up to MaxItems employees, next
\* to clock-in and clock-out within one hour
MaxItems == 2

NextSelective ==
    \/ \E r \in Req, e \in EmpIds : ClockInStart(r, e)
    \/ \E r \in Req : ClockInCommit(r)
    \/ \E r \in Req, e \in EmpIds : ClockOutStart(r, e)
    \/ \E r \in Req : ClockOutCommit(r)
    \/ \E r \in Req, items \in SelectedLists(MaxItems), a \in EmpIds :
          SelectiveStart(r, items, a)
    \/ \E r \in Req : SelectiveCommit(r)

SpecSelective == Init /\ [][NextSelective]_vars

\* the batch corrections of up to MaxEntries entries, with the responses
\* observed; a batch starts while no other request is in flight, clock-ins and
\* clock-outs start and commit while it is
NextBatch ==
    \/ \E r \in Req, e \in EmpIds : ClockInStart(r, e)
    \/ \E r \in Req : ClockInCommit(r)
    \/ \E r \in Req, e \in EmpIds : ClockOutStart(r, e)
    \/ \E r \in Req : ClockOutCommit(r)
    \/ \E r \in Req, act \in BatchActions,
          ids \in SUBSET (1..MaxEntries) \ {{}},
          a \in EmpIds, t \in TimeInputs \cup {Null} :
          /\ \A q \in Req : req[q].pc = "idle"
          /\ BatchStart(r, act, ids, a, t)
    \/ \E r \in Req : BatchCommit(r)
    \/ Tick

SpecBatch == Init /\ [][NextBatch]_vars

\* the "Enforce Now" override on a Saturday from 19:00 on and on the Sunday
\* after it at 17:00, an hour before that day's closing time
SundayAfternoon == DaysPerWeek * HoursPerDay + 17

InitWeekend ==
    /\ employees = (1 :> [isAdmin |-> TRUE]) @@ (2 :> [isAdmin |-> FALSE])
    /\ entries = <<>>
    /\ now \in {SaturdayEvening, SundayAfternoon}
    /\ req = [r \in Req |-> Req0]
    /\ resp = NoResp
    /\ watch = TRUE

NextEnforce ==
    \/ \E r \in Req, e \in InputEmpIds : ClockInStart(r, e)
    \/ \E r \in Req : ClockInCommit(r)
    \/ \E r \in Req, e \in InputEmpIds : ClockOutStart(r, e)
    \/ \E r \in Req : ClockOutCommit(r)
    \/ \E r \in Req : EnforceNoOvertimeNow(r)
    \/ \E r \in Req : AutoClockoutCommit(r)
    \/ Tick

SpecEnforce == InitWeekend /\ [][NextEnforce]_vars

\* the lifecycle while employees are deleted: entries keep the reference to a
\* deleted employee
NextDeleted ==
    \/ \E r \in Req, e \in InputEmpIds : ClockInStart(r, e)
    \/ \E r \in Req : ClockInCommit(r)
    \/ \E r \in Req, e \in InputEmpIds : ClockOutStart(r, e)
    \/ \E r \in Req : ClockOutCommit(r)
    \/ \E r \in Req, id \in EmpIds : DeleteEmployeeStart(r, id)
    \/ \E r \in Req : DeleteEmployeeCommit(r)
    \/ \E r \in Req, dryRun \in BOOLEAN : AutoClockoutTrigger(r, now, dryRun)
    \/ \E r \in Req : AutoClockoutCommit(r)
    \/ Tick

SpecDeleted == Init /\ [][NextDeleted]_vars

\* the corrections while admins are edited and deleted: two admins, one entry
InitRevoke ==
    /\ employees = (1 :> [isAdmin |-> TRUE, pin |-> 1, v |-> 0])
                      @@ (2 :> [isAdmin |-> TRUE, pin |-> 2, v |-> 0])
    /\ entries = <<>>
    /\ now = SaturdayEvening
    /\ req = [r \in Req |-> Req0]
    /\ resp = NoResp
    /\ watch = FALSE

NextRevoke ==
    \/ /\ \/ \E r \in Req, e \in EmpIds : ClockInStart(r, e)
          \/ \E r \in Req : ClockInCommit(r)
          \/ \E r \in Req, e \in EmpIds : ClockOutStart(r, e)
          \/ \E r \in Req : ClockOutCommit(r)
       /\ AdminCap'
    \/ \E r \in Req, i \in 1..MaxAdminEntries, a \in EmpIds,
          t \in TimeInputs \cup {Null}, m \in BOOLEAN :
          CorrectStart(r, i, a, t, m)
    \/ \E r \in Req : CorrectCommit(r)
    \/ \E r \in Req, act \in BatchActions,
          ids \in SUBSET (1..MaxAdminEntries) \ {{}},
          a \in EmpIds, t \in TimeInputs \cup {Null} :
          BatchStart(r, act, ids, a, t)
    \/ \E r \in Req : BatchCommit(r)
    \/ \E r \in Req, id \in EmpIds, a \in BOOLEAN :
          UpdateEmployeeStart(r, id, 0, a)
    \/ \E r \in Req : UpdateEmployeeCommit(r)
    \/ \E r \in Req, id \in EmpIds : DeleteEmployeeStart(r, id)
    \/ \E r \in Req : DeleteEmployeeCommit(r)

SpecRevoke == InitRevoke /\ [][NextRevoke]_vars

\* ---- withRetry (database utilities) --------------------------------------------
DefaultMaxRetries == 3

\* what an operation can throw: an error with no code, with a string code
\* (of the transient ones or not) or with a numeric code as the errors of the
\* MongoDB server have it; marked is true when its message, name or labels
\* are those of a transient error
Errors ==
    [name : {"Error"}, code : {"none", "ECONNRESET", "EOTHER", "number"},
     marked : BOOLEAN]

TypeError == [name |-> "TypeError", code |-> "none", marked |-> FALSE]

\* isTransientError: `error.code.includes` is no function of a number
isTransientError(error) ==
    IF error.code = "number" THEN "TypeError"
    ELSE IF error.code = "ECONNRESET" THEN "true"
    ELSE IF error.marked THEN "true"
    ELSE "false"

RetryReq(maxRetries, attempt) ==
    [maxRetries |-> maxRetries]
      @@ [Req0 EXCEPT !.op = "withRetry", !.pc = "attempt", !.count = attempt]

RetryResult(status, attempts, thrown) ==
    [NoResp EXCEPT !.op = "withRetry", !.status = status, !.count = attempts,
                   !.errors = thrown]

\* withRetry(operation, {maxRetries}): the loop starts with attempt = 0
WithRetryStart(r, maxRetries) ==
    /\ Free(r)
    /\ Continue(r, RetryReq(maxRetries, 0))
    /\ UNCHANGED <<employees, entries, now, watch>>

\* one pass of the loop: the operation returns
AttemptReturns(r) ==
    /\ req[r].op = "withRetry" /\ req[r].pc = "attempt"
    /\ Return(r, RetryResult("returned", req[r].count + 1, <<>>))
    /\ UNCHANGED <<employees, entries, now, watch>>

\* one pass of the loop: the operation throws error
AttemptThrows(r, error) ==
    /\ req[r].op = "withRetry" /\ req[r].pc = "attempt"
    /\ LET attempt == req[r].count IN
       IF attempt = req[r].maxRetries
       THEN Return(r, RetryResult("thrown", attempt + 1, <<error>>))
       ELSE IF isTransientError(error) = "TypeError"
       THEN Return(r, RetryResult("thrown", attempt + 1, <<TypeError>>))
       ELSE IF isTransientError(error) = "false"
       THEN Return(r, RetryResult("thrown", attempt + 1, <<error>>))
       ELSE Continue(r, RetryReq(req[r].maxRetries, attempt + 1))
    /\ UNCHANGED <<employees, entries, now, watch>>

NextRetry ==
    \/ \E r \in Req, n \in 0..DefaultMaxRetries : WithRetryStart(r, n)
    \/ \E r \in Req : AttemptReturns(r)
    \/ \E r \in Req, error \in Errors : AttemptThrows(r, error)

SpecRetry == Init /\ [][NextRetry]_vars

\* ---- schedule and status (GET /api/auto-clockout) --------------------------------
\* GET ?action=schedule
GetSchedule ==
    /\ resp' = [next |-> getNextAutoClockoutTime(now),
                clockoutTime |-> getAutoClockoutTime(now),
                shouldClockout |-> shouldAutoClockout(now),
                timeRemaining |-> IF getAutoClockoutTime(now) - now > 0
                                  THEN getAutoClockoutTime(now) - now ELSE 0]
                 @@ Done("schedule", "ok")
    /\ UNCHANGED <<employees, entries, now, req, watch>>

\* GET ?action=status
GetStatus ==
    /\ resp' = [activeEmployees |-> Cardinality(OpenEntries(entries)),
                shouldAutoClockout |-> shouldAutoClockout(now),
                nextClockoutTime |-> getAutoClockoutTime(now)]
                 @@ Done("status", "ok")
    /\ UNCHANGED <<employees, entries, now, req, watch>>

\* the requests may come at any hour of a week that starts on a Sunday
InitSchedule ==
    /\ employees = (1 :> [isAdmin |-> TRUE]) @@ (2 :> [isAdmin |-> FALSE])
    /\ entries = <<>>
    /\ now \in 0..(DaysPerWeek * HoursPerDay - 1)
    /\ req = [r \in Req |-> Req0]
    /\ resp = NoResp
    /\ watch = TRUE

NextSchedule ==
    \/ GetSchedule
    \/ GetStatus

SpecSchedule == InitSchedule /\ [][NextSchedule]_vars

\* ---- corrections of an entry the auto-clockout closed ------------------------------
\* one entry, closed by the scheduled check, then corrected one by one and in
\* batches
NextOriginal ==
    \/ /\ \/ \E r \in Req, e \in EmpIds : ClockInStart(r, e)
          \/ \E r \in Req : ClockInCommit(r)
          \/ \E r \in Req : CheckAndRun(r)
          \/ \E r \in Req : AutoClockoutCommit(r)
          \/ Tick
       /\ AdminCap'
    \/ \E r \in Req, i \in 1..MaxAdminEntries, a \in EmpIds,
          t \in TimeInputs \cup {Null}, m \in BOOLEAN :
          CorrectStart(r, i, a, t, m)
    \/ \E r \in Req : CorrectCommit(r)
    \/ \E r \in Req, act \in BatchActions,
          ids \in SUBSET (1..MaxAdminEntries) \ {{}},
          a \in EmpIds, t \in TimeInputs \cup {Null} :
          BatchStart(r, act, ids, a, t)
    \/ \E r \in Req : BatchCommit(r)

SpecOriginal == Init /\ [][NextOriginal]_vars

\* ---- selective auto-clockout with and without adminEmployeeId ----------------------
NextUnsigned ==
    \/ /\ \/ \E r \in Req, e \in EmpIds : ClockInStart(r, e)
          \/ \E r \in Req : ClockInCommit(r)
       /\ AdminCap'
    \/ \E r \in Req, items \in SelectedInputs, a \in {NotGiven} \cup InputEmpIds :
          SelectiveStart(r, items, a)
    \/ \E r \in Req : SelectiveCommit(r)
    \/ \E r \in Req, i \in 1..MaxAdminEntries, a \in InputEmpIds, m \in BOOLEAN :
          CorrectStart(r, i, a, IF m THEN Null ELSE now, m)
    \/ \E r \in Req : CorrectCommit(r)

SpecUnsigned == Init /\ [][NextUnsigned]_vars

\* ---- the review list while employees are deleted -----------------------------------
\* the review list is asked for without an employee filter
NextReviewDeleted ==
    \/ \E r \in Req, e \in EmpIds : ClockInStart(r, e)
    \/ \E r \in Req : ClockInCommit(r)
    \/ \E r \in Req : CheckAndRun(r)
    \/ \E r \in Req : AutoClockoutCommit(r)
    \/ \E r \in Req, id \in EmpIds : DeleteEmployeeStart(r, id)
    \/ \E r \in Req : DeleteEmployeeCommit(r)
    \/ \E r \in Req : GroupByEmployeeNeedingReview(r, 0)
    \/ Tick

SpecReviewDeleted == Init /\ [][NextReviewDeleted]_vars

\* ---- the cron job (POST /api/cron/auto-clockout) -----------------------------------
\* variant of the schedule with the call at 18:00 only
CronHoursEarly == {ClosingHourSunday}

\* the schedule "0 18,20 * * *", taken in local time
CronHours == {ClosingHourSunday, ClosingHourMonSat}

\* the last call of the model: Monday 20:00
MondayEvening == (DaysPerWeek + 1) * HoursPerDay + ClosingHourMonSat

InitCron ==
    /\ employees = (1 :> [isAdmin |-> TRUE]) @@ (2 :> [isAdmin |-> FALSE])
    /\ entries = <<>>
    /\ now = SundayAfternoon
    /\ req = [r \in Req |-> Req0]
    /\ resp = NoResp
    /\ watch = TRUE

\* the cron service calls the endpoint with the secret at the hours of the
\* schedule
CronCheck(r) ==
    /\ now % HoursPerDay \in CronHours
    /\ CheckAndRun(r)

\* an hour passes; an hour of the schedule passes only once the call of the
\* cron service has returned
CronTick ==
    /\ now < MondayEvening
    /\ now % HoursPerDay \in CronHours => resp.op \in {"check", "auto"}
    /\ now' = now + 1
    /\ resp' = NoResp
    /\ UNCHANGED <<employees, entries, req, watch>>

CronClockIn == \E r \in Req, e \in EmpIds : ClockInStart(r, e) /\ AdminCap'

NextCron ==
    \/ CronClockIn
    \/ \E r \in Req : ClockInCommit(r)
    \/ \E r \in Req : CronCheck(r)
    \/ \E r \in Req : AutoClockoutCommit(r)
    \/ CronTick

\* every call made returns and the cron service keeps calling; time passes
\* whatever the requests do: an hour in which the calls of the cron service
\* return again and again does come to its end
SpecCron ==
    /\ InitCron /\ [][NextCron]_vars
    /\ WF_vars(\E r \in Req : ClockInCommit(r))
    /\ WF_vars(\E r \in Req : CronCheck(r))
    /\ WF_vars(\E r \in Req : AutoClockoutCommit(r))
    /\ SF_vars(CronTick)

\* ---- properties -----------------------------------------------------------------
Closed(ent) == ent.clockOut # Null

\* C1: every employee has at most one open entry in every reachable state, and
\* a ClockIn that succeeds leaves its employee with the entry it created as the
\* only open one (of the ClockIns that run concurrently for one employee only
\* one succeeds).
AtMostOneOpenEntry ==
    /\ \A e \in EmpIds : Cardinality(ActiveEntries(entries, e)) <= 1
    /\ (resp.op = "clockIn" /\ resp.status = "ok")
          => ActiveEntries(entries, entries[resp.target].emp) = {resp.target}

\* C2: every entry whose clockOut is set has hoursWorked = clockOut - clockIn in
\* hours, whichever operation set clockOut.
HoursWorkedMatchesTimes ==
    \A i \in DOMAIN entries :
        Closed(entries[i])
          => entries[i].hoursWorked
               = HoursBetween(entries[i].clockIn, entries[i].clockOut)

\* C3: every closed entry has clockOut after clockIn.  Times are whole hours
\* here and two instants of one hour are equal, so the formula asks only that
\* clockOut is not before clockIn, which the claim implies.
ClockOutAfterClockIn ==
    \A i \in DOMAIN entries :
        Closed(entries[i]) => entries[i].clockOut >= entries[i].clockIn

\* C4: sessions of one employee never overlap: of two entries of one employee
\* the earlier one (clockIn never decreases with the order of insertion) is
\* closed and its clockOut is not later than the clockIn of the other.
SessionsNeverOverlap ==
    \A i, j \in DOMAIN entries :
        (i < j /\ entries[i].emp = entries[j].emp)
          => /\ Closed(entries[i])
             /\ entries[i].clockOut <= entries[j].clockIn

\* C5: a CorrectEntry with a new time sets originalClockOut of an auto-clockout
\* entry to the clockOut it replaces when originalClockOut is not set yet, and
\* leaves an originalClockOut that is set as it is; originalClockOut is never
\* set on an entry that was not auto-clocked-out.
OriginalClockOutSetOnce ==
    /\ [][\A r \in Req :
            (CorrectCommit(r) /\ req[r].target \notin req[r].stale
                              /\ req[r].time # Null)
              => LET old == entries[req[r].target]
                     new == entries'[req[r].target]
                 IN /\ (old.isAutoClockOut /\ old.originalClockOut = Null)
                         => new.originalClockOut = old.clockOut
                    /\ old.originalClockOut # Null
                         => new.originalClockOut = old.originalClockOut]_vars
    /\ [](\A i \in DOMAIN entries :
            entries[i].originalClockOut # Null => entries[i].isAutoClockOut)

\* an auto-clockout entry whose first correction replaced clockOut, with a
\* second correction of the time about to be written
SecondCorrectionPending ==
    \E i \in DOMAIN entries, r \in Req :
        /\ entries[i].originalClockOut # Null
        /\ entries[i].clockOut # entries[i].originalClockOut
        /\ req[r].op = "correct" /\ req[r].pc = "write"
        /\ req[r].target = i /\ req[r].time # Null
        /\ req[r].time # entries[i].clockOut
        /\ i \notin req[r].stale

\* C6: an entry has needsReview = TRUE exactly when it is a closed auto-clockout
\* entry with adminCorrected = FALSE.
NeedsReviewExactlyWhenPending ==
    \A i \in DOMAIN entries :
        entries[i].needsReview
          <=> /\ Closed(entries[i])
              /\ entries[i].isAutoClockOut
              /\ ~entries[i].adminCorrected

\* an entry closed by the auto-clockout and waiting for review, next to a
\* correction of it that is about to be written
PendingReviewBeingCorrected ==
    \E i \in DOMAIN entries, r \in Req :
        /\ entries[i].needsReview
        /\ req[r].pc \in {"write", "update"}
        /\ req[r].op \in {"correct", "mark-correct", "batch-correct"}
        /\ i \in {req[r].target} \cup req[r].ids

ClosedByStep(i) == ~Closed(entries[i]) /\ Closed(entries'[i])

\* C7: a successful CorrectEntry and a mark-correct BatchCorrect leave every
\* entry they update with needsReview = FALSE, every entry closed by the
\* selective auto-clockout has needsReview = FALSE, every entry closed by a
\* non-dry-run auto-clockout has needsReview = TRUE.
NeedsReviewAfterEachOperation ==
    [][\A r \in Req :
          /\ (CorrectCommit(r) /\ req[r].target \notin req[r].stale)
                => ~entries'[req[r].target].needsReview
          /\ (BatchCommit(r) /\ req[r].op = "mark-correct")
                => \A i \in BatchMatch(entries, req[r].ids, "mark-correct",
                                       req[r].time) :
                      ~entries'[i].needsReview
          /\ SelectiveCommit(r)
                => \A i \in DOMAIN entries :
                      ClosedByStep(i) => ~entries'[i].needsReview
          /\ AutoClockoutCommit(r)
                => \A i \in DOMAIN entries :
                      ClosedByStep(i) => entries'[i].needsReview]_vars

\* an entry closed by the auto-clockout whose flag an administrator cleared
AutoClockoutReviewed ==
    \E i \in DOMAIN entries :
        /\ entries[i].isAutoClockOut
        /\ entries[i].correctedBy # Null
        /\ ~entries[i].needsReview
        /\ entries[i].originalClockOut # Null

\* a non-dry-run RunAutoClockout that starts when no entry is open reports
\* clockedOutCount = 0 and no errors and changes no entry
RunWithNothingOpen ==
    \A r \in Req :
        (AutoClockoutTrigger(r, now, FALSE) /\ OpenEntries(entries) = {})
          => /\ resp'.op = "auto"
             /\ resp'.count = 0
             /\ resp'.errors = <<>>
             /\ entries' = entries

\* C8 as the specification states it: after a non-dry-run RunAutoClockout that
\* reports no errors no entry is open, and a run with nothing open reports
\* clockedOutCount = 0, no errors and changes no entry.
NothingOpenAfterRun ==
    /\ []((resp.op = "auto" /\ resp.errors = <<>>) => OpenEntries(entries) = {})
    /\ [][RunWithNothingOpen]_vars

\* C8: after a non-dry-run RunAutoClockout that reports no errors, every entry
\* that was open when the run read the open entries is closed (an entry that a
\* ClockIn inserts while the run is in progress stays open); a run that starts
\* when no entry is open reports clockedOutCount = 0, no errors and changes no
\* entry.
SnapshotClosedAfterRun ==
    /\ [][\A r \in Req :
            (AutoClockoutCommit(r) /\ req'[r].pc = "idle" /\ resp'.errors = <<>>)
              => /\ \A i \in req[r].snap : Closed(entries'[i])
                 /\ resp'.count = Cardinality(req[r].snap)]_vars
    /\ [][RunWithNothingOpen]_vars

\* a run has just reported that it closed entries without an error, and an
\* entry inserted during the run is open
OpenEntryAfterCleanRun ==
    /\ resp.op = "auto" /\ resp.errors = <<>> /\ resp.count > 0
    /\ OpenEntries(entries) # {}
    /\ \E i \in DOMAIN entries : entries[i].isAutoClockOut

\* the errors request r has recorded after the step
ErrorsAfter(r) == IF req'[r].pc = "idle" THEN resp'.errors ELSE req'[r].errors

\* C9: an entry that a manual ClockOut closed after RunAutoClockout read the
\* open entries and before RunAutoClockout wrote it is not changed by the run,
\* and the run records no error for it.
ManualClockOutIsSkipped ==
    [][\A r \in Req :
          AutoClockoutCommit(r)
            => \A i \in req[r].snap \cap req[r].stale :
                  (Closed(entries[i]) /\ ~entries[i].isAutoClockOut)
                    => /\ entries'[i] = entries[i]
                       /\ \A k \in DOMAIN ErrorsAfter(r) :
                             ErrorsAfter(r)[k].entry # i]_vars

\* C10: the priority of a group is 'high' exactly when its oldest flagged entry
\* was flagged at least 3 days ago, 'medium' exactly when at least 1 day and
\* less than 3 days ago, 'low' otherwise (an entry flagged 2 hours ago: 'low').
PriorityFollowsAge ==
    resp.op = "review"
      => \A e \in DOMAIN resp.groups :
            LET age == Max({now - entries[i].updatedAt :
                              i \in resp.groups[e].entries})
            IN resp.groups[e].priority
                 = IF age >= HighPriorityDays * HoursPerDay THEN "high"
                   ELSE IF age >= MediumPriorityDays * HoursPerDay THEN "medium"
                   ELSE "low"

RECURSIVE SumDays(_, _, _, _)
\* the sum of day.hours over the days of the weeks of the months of a report
SumDays(months, m, w, d) ==
    IF m > Len(months) THEN 0
    ELSE IF w > Len(months[m].weeks) THEN SumDays(months, m + 1, 1, 1)
    ELSE IF d > Len(months[m].weeks[w].days) THEN SumDays(months, m, w + 1, 1)
    ELSE months[m].weeks[w].days[d].totalHours + SumDays(months, m, w, d + 1)

\* C11: the sum of day.hours of the report of an employee and a year is the
\* sum of hoursWorked of the closed entries of the employee whose clockIn is in
\* that year (of the local calendar); the week totals of a month sum to the
\* month total and the month totals to the year total.
ReportSumsMatchEntries ==
    (resp.op = "report" /\ resp.status = "ok" /\ resp.month = 0)
      => /\ SumDays(resp.data.months, 1, 1, 1)
              = SumHours(entries,
                         {i \in DOMAIN entries :
                             /\ entries[i].emp = resp.emp
                             /\ Closed(entries[i])
                             /\ getFullYear(entries[i].clockIn, resp.tz) = resp.year})
         /\ \A m \in DOMAIN resp.data.months :
               SumTotals(resp.data.months[m].weeks, 1)
                 = resp.data.months[m].totalHours
         /\ SumTotals(resp.data.months, 1) = resp.data.totalHours

\* C12: once an admin exists, every reachable state has at least one employee
\* with isAdmin = TRUE, under any interleaving of employee create, update and
\* delete.
AdminAlwaysExists == Admins(employees) # {}

\* C13: deleting the only admin fails with 'Cannot delete the last admin user'
\* and leaves the employees unchanged; deleting an admin while another admin
\* exists goes on to the delete, and the delete removes exactly that employee.
LastAdminCannotBeDeleted ==
    [][\A r \in Req :
          /\ \A id \in EmployeeIds :
                (DeleteEmployeeStart(r, id) /\ id \in Admins(employees))
                  => IF Admins(employees) = {id}
                     THEN /\ resp'.op = "deleteEmployee"
                          /\ resp'.status = "CannotDeleteLastAdmin"
                          /\ employees' = employees
                     ELSE /\ req'[r].op = "deleteEmployee"
                          /\ req'[r].pc = "write"
                          /\ req'[r].emp = id
          /\ (DeleteEmployeeCommit(r) /\ req[r].emp \notin req[r].stale)
                => /\ DOMAIN employees' = DOMAIN employees \ {req[r].emp}
                   /\ \A e \in DOMAIN employees' : employees'[e] = employees[e]
                   /\ resp'.status = "ok"
          /\ (DeleteEmployeeCommit(r) /\ req[r].emp \in req[r].stale)
                => employees' = employees]_vars

\* the delete of the only admin has just been refused, after another admin
\* was deleted
LastAdminDeleteRefused ==
    /\ resp.op = "deleteEmployee" /\ resp.status = "CannotDeleteLastAdmin"
    /\ Cardinality(Admins(employees)) = 1
    /\ \E id \in EmployeeIds : id \notin DOMAIN employees /\ id < NewEmployeeId

\* the inputs of CorrectEntry
CorrectInputs ==
    [id : CorrectEntryIds, admin : InputEmpIds,
     newClockOut : TimeInputs \cup {Null}, markAsCorrect : BOOLEAN]

\* request r answers status to the CorrectEntry call c and writes nothing
Rejected(r, status) ==
    /\ resp' = Done("correct", status)
    /\ req'[r] = Req0
    /\ entries' = entries

\* C14: CorrectEntry is refused, every field of every entry as before, with
\* AdminPrivilegesRequired when adminId is no admin, with EntryStillActive
\* when the entry has no clockOut, with ClockOutBeforeClockIn when
\* newClockOut is not after clockIn, with FutureClockOut when newClockOut is
\* after now; where two of them apply the code's order of the checks decides.
CorrectEntryRejections ==
    [][\A r \in {q \in Req : Free(q)}, c \in CorrectInputs :
         LET given == c.newClockOut # Null
             found == c.id \in DOMAIN entries
             closed == found /\ entries[c.id].clockOut # Null
             status ==
               IF ~IsAdmin(c.admin) THEN "AdminPrivilegesRequired"
               ELSE IF found /\ ~closed THEN "EntryStillActive"
               ELSE IF closed /\ given /\ c.newClockOut <= entries[c.id].clockIn
               THEN "ClockOutBeforeClockIn"
               ELSE IF closed /\ given /\ c.newClockOut > now
               THEN "FutureClockOut"
               ELSE "none"
         IN status # "none" =>
              \/ Rejected(r, status)
              \/ ~CorrectStart(r, c.id, c.admin, c.newClockOut,
                               c.markAsCorrect)]_vars

\* a correction to the hour of the clock-in has just been refused
ClockOutAtClockInRefused ==
    /\ resp.op = "correct" /\ resp.status = "ClockOutBeforeClockIn"
    /\ \E i \in DOMAIN entries : entries[i].clockOut = entries[i].clockIn

\* C15: a CorrectEntry call of an admin on a closed entry that gives neither
\* markAsCorrect nor newClockOut, or gives markAsCorrect = true together with
\* newClockOut, is refused with InvalidCorrectionRequest and leaves the entry
\* as it was.
NeitherOrBothModesRefused ==
    [][\A r \in {q \in Req : Free(q)}, c \in CorrectInputs :
         LET given == c.newClockOut # Null
             closed == c.id \in DOMAIN entries /\ entries[c.id].clockOut # Null
         IN IsAdmin(c.admin) /\ closed /\ (given <=> c.markAsCorrect) =>
              \/ Rejected(r, "InvalidCorrectionRequest")
              \/ ~CorrectStart(r, c.id, c.admin, c.newClockOut,
                               c.markAsCorrect)]_vars

\* C16: a RunAutoClockout(targetTime) that writes sets the clockOut of every
\* entry it closes to targetTime, whatever targetTime is, also one later than
\* the closing time of its day.
ClosedAtTargetTime ==
    [][\A r \in Req :
         AutoClockoutCommit(r) =>
           \A i \in DOMAIN entries :
             entries[i].clockOut = Null /\ entries'[i].clockOut # Null =>
               entries'[i].clockOut = req[r].targetDate]_vars

\* C17: a dry run of RunAutoClockout changes no TimeEntry, reports
\* clockedOutCount = 0 and lists in clockedOutEmployees exactly the entries
\* that were open.
DryRunListsOpenEntries ==
    [][\A r \in Req :
         AutoClockoutTrigger(r, now, TRUE) =>
           /\ entries' = entries
           /\ resp'.op = "dryRun" /\ resp'.count = 0
           /\ Len(resp'.closed) = Cardinality(OpenEntries(entries))
           /\ {resp'.closed[k].entry : k \in DOMAIN resp'.closed}
                = OpenEntries(entries)]_vars

\* C18: when a RunAutoClockout that writes returns with the failed update of
\* an entry in errors, success is false, every entry of its snapshot is
\* closed, and clockedOutCount is the number of entries the run closed.
FailedUpdateIsolated ==
    [][\A r \in Req :
         AutoClockoutCommit(r) /\ resp'.op = "auto" /\ resp'.errors # <<>> =>
           /\ resp'.status = "failed"
           /\ \A i \in req[r].snap : entries'[i].clockOut # Null
           /\ resp'.count =
                Cardinality({i \in DOMAIN entries :
                               /\ entries[i].clockOut = Null
                               /\ entries'[i].clockOut # Null})]_vars

\* C19: RunSelectiveAutoClockout reports success = false exactly when its
\* error list is not empty and it has clocked out no employee.
SelectiveFailsOnlyWithoutClockout ==
    resp.op = "selective" /\ resp.status \in {"ok", "failed"} =>
      (resp.status = "failed" <=> resp.errors # <<>> /\ resp.count = 0)

\* C20: CheckAndRun before the closing time of the day changes no TimeEntry
\* and returns success = true, count 0 and no errors; at or after the closing
\* time it does what RunAutoClockout(now) does.
CheckAndRunFollowsClosingTime ==
    [][\A r \in Req :
         CheckAndRun(r) =>
           IF now < getAutoClockoutTime(now)
           THEN /\ entries' = entries
                /\ req'[r] = Req0
                /\ resp'.status = "ok" /\ resp'.count = 0
                /\ resp'.errors = <<>> /\ resp'.closed = <<>>
           ELSE AutoClockoutTrigger(r, now, FALSE)]_vars

\* the check has just left an open entry alone, before the closing time
CheckBeforeClosingSkipped ==
    /\ resp.op = "check"
    /\ now < getAutoClockoutTime(now)
    /\ OpenEntries(entries) # {}

\* 20:00 of the day of t from Monday to Saturday, 18:00 on a Sunday
ClosingTimeOfDay(t) ==
    (t \div HoursPerDay) * HoursPerDay
      + (IF (t \div HoursPerDay) % DaysPerWeek = 0 THEN 18 ELSE 20)

\* C21: EnforceNoOvertimeNow closes the open entries of its snapshot with
\* clockOut equal to the closing time of the current day (20:00 from Monday
\* to Saturday, 18:00 on a Sunday), before that time as well as after it.
EnforceClosesAtClosingTime ==
    [][\A r \in Req :
         AutoClockoutCommit(r) =>
           \A i \in req[r].snap :
             /\ entries'[i].clockOut # entries[i].clockOut =>
                   entries'[i].clockOut = ClosingTimeOfDay(now)
             /\ req'[r] = Req0 => entries'[i].clockOut # Null]_vars

\* on the Sunday at 17:00 an entry has just been closed at 18:00
ClosedAtSundayClosingTime ==
    /\ resp.op = "auto" /\ resp.count > 0
    /\ getDay(now) = 0 /\ now < ClosingTimeOfDay(now)
    /\ \E i \in DOMAIN entries :
          entries[i].isAutoClockOut /\ entries[i].clockOut = ClosingTimeOfDay(now)

\* C22: no operation sets the clockOut of an entry that has one back to null.
ClockOutNeverCleared ==
    [][\A i \in DOMAIN entries :
         entries[i].clockOut # Null => entries'[i].clockOut # Null]_vars

\* a closed entry has been marked as correct by an admin, its time kept
ClosedEntryMarkedCorrect ==
    \E i \in DOMAIN entries :
      /\ entries[i].adminCorrected /\ ~entries[i].isAutoClockOut
      /\ entries[i].clockOut # Null
      /\ entries[i].updatedAt > entries[i].clockOut

\* C23: BatchCorrect modifies the entries listed in entryIds that are closed
\* and, for action batch-correct, whose clockIn is before clockOutTime; every
\* other entry is unchanged, and modifiedCount is the number of the entries
\* modified.
BatchModifiesOnlyMatching ==
    [][\A r \in Req :
         BatchCommit(r) =>
           LET t == req[r].time
               wanted == {i \in DOMAIN entries :
                            /\ i \in req[r].ids
                            /\ entries[i].clockOut # Null
                            /\ req[r].op = "batch-correct" =>
                                  entries[i].clockIn < t}
           IN IF resp'.status = "ok"
              THEN /\ resp'.count = Cardinality(wanted)
                   /\ \A i \in DOMAIN entries :
                        IF i \in wanted
                        THEN /\ entries'[i].correctedBy = req[r].admin
                             /\ entries'[i].adminCorrected
                             /\ ~entries'[i].needsReview
                             /\ req[r].op = "batch-correct" =>
                                   entries'[i].clockOut = t
                        ELSE entries'[i] = entries[i]
              ELSE entries' = entries]_vars

\* a batch-correct of two listed entries has modified one of them: the
\* other one is open or was clocked in too late
BatchCorrectSkippedAnEntry ==
    /\ resp.op = "batch-correct" /\ resp.status = "ok" /\ resp.count = 1
    /\ Len(entries) = MaxEntries
    /\ \E i \in DOMAIN entries \ resp.snap :
          entries[i].clockOut = Null \/ entries[i].clockIn = now

\* C24: CorrectEntry and BatchCorrect commit no modification in the name of
\* an adminId that is no admin, or is no longer stored, when they commit.
CorrectionsOnlyByAdmins ==
    [][\A r \in Req :
         (CorrectCommit(r) \/ BatchCommit(r)) /\ entries' # entries =>
           IsAdmin(req[r].admin)]_vars

\* C25: ClockOut for an employee without open entry fails with
\* NoActiveClockIn and changes nothing; of two concurrent ClockOut requests
\* on the one open entry of an employee one succeeds, and the entry keeps the
\* clockOut and hoursWorked it wrote: the other one writes nothing to it and
\* fails with NoActiveClockIn when it finds no open entry.
ClockOutWritesOnce ==
    [][\A r \in Req :
         /\ \A e \in EmpIds :
              ClockOutStart(r, e) /\ ActiveEntries(entries, e) = {} =>
                /\ resp' = Done("clockOut", "NoActiveClockIn")
                /\ req'[r] = Req0 /\ entries' = entries
         /\ ClockOutCommit(r) =>
              LET i == req[r].target IN
              IF entries[i].clockOut = Null
              THEN /\ resp'.status = "ok"
                   /\ entries'[i].clockOut = now
                   /\ entries'[i].hoursWorked = now - entries[i].clockIn
                   /\ \A j \in DOMAIN entries \ {i} : entries'[j] = entries[j]
              ELSE /\ entries' = entries
                   /\ ActiveEntries(entries, req[r].emp) = {} =>
                         resp' = Done("clockOut", "NoActiveClockIn")]_vars

\* one of two ClockOut requests on the same entry has just succeeded, the
\* other one is still in flight
ClockOutWonByOne ==
    /\ resp.op = "clockOut" /\ resp.status = "ok"
    /\ \E r \in Req :
          /\ req[r].op = "clockOut" /\ req[r].pc = "write"
          /\ req[r].target = resp.target
          /\ entries[req[r].target].clockOut # Null

\* C26: when two edits of an employee have read the same version, the one
\* that writes second fails with ConcurrentModification and leaves the
\* employee as the first one wrote it, the version incremented once.
SecondEditRefused ==
    [][\A r \in Req :
         /\ UpdateEmployeeCommit(r)
         /\ req[r].emp \in DOMAIN employees
         /\ employees[req[r].emp].v # req[r].v
         => /\ resp' = Done("updateEmployee", "ConcurrentModification")
            /\ req'[r] = Req0
            /\ employees' = employees]_vars

\* C27: in every state no two employees have the same PIN.
PinsAreUnique ==
    \A a, b \in DOMAIN employees :
      a # b => employees[a].pin # employees[b].pin

\* C28: the totals of BuildReport count every closed entry of the employee
\* whose clockIn lies in the reporting window, the entries closed by the
\* auto-clockout and not yet reviewed or corrected among them.
ReportCountsEveryClosedEntry ==
    resp.op = "report" /\ resp.status = "ok" =>
      LET first == IF resp.month # 0 THEN resp.month ELSE 1
          startDate == NewDate(resp.year, first, 1, resp.tz)
          endDate == IF resp.month # 0
                     THEN NewDate(resp.year, resp.month + 1, 1, resp.tz) - 1
                     ELSE NewDate(resp.year + 1, 1, 1, resp.tz) - 1
      IN resp.data.totalEntries =
           Cardinality({i \in DOMAIN entries :
                          /\ entries[i].emp = resp.emp
                          /\ entries[i].clockOut # Null
                          /\ startDate <= entries[i].clockIn
                          /\ entries[i].clockIn <= endDate})

\* C29: daysWorked of the summary of BuildReport is the number of the
\* distinct calendar days on which the employee has an entry of the report,
\* also with several sessions on one day.
DaysWorkedCountsDays ==
    resp.op = "report" /\ resp.status = "ok" =>
      LET first == IF resp.month # 0 THEN resp.month ELSE 1
          startDate == NewDate(resp.year, first, 1, resp.tz)
          endDate == IF resp.month # 0
                     THEN NewDate(resp.year, resp.month + 1, 1, resp.tz) - 1
                     ELSE NewDate(resp.year + 1, 1, 1, resp.tz) - 1
          found == ReportEntries(entries, resp.emp, startDate, endDate)
      IN resp.summary.daysWorked =
           Cardinality({LocalDay(entries[i].clockIn, resp.tz) : i \in found})

\* the error is one of the transient ones: by its code, message, name or
\* labels
Transient(error) == error.code = "ECONNRESET" \/ error.marked

\* C30: withRetry runs the operation at most maxRetries + 1 times; it runs it
\* again only after a transient error; a non-transient error is rethrown
\* after the attempt that threw it, and the error of the last allowed attempt
\* is propagated.
RetryStopsAndRethrows ==
    [][\A r \in Req, error \in Errors :
         AttemptThrows(r, error) =>
           /\ req[r].count <= req[r].maxRetries
           /\ req'[r].op = "withRetry" =>
                 /\ Transient(error)
                 /\ req'[r].count = req[r].count + 1
                 /\ req'[r].count <= req[r].maxRetries
           /\ ~Transient(error) \/ req[r].count = req[r].maxRetries =>
                 resp' = RetryResult("thrown", req[r].count + 1, <<error>>)]_vars

\* C31: the closing time of a day is 20:00 of that calendar day from Monday
\* to Saturday and 18:00 of it on a Sunday, and shouldAutoClockout(now) is
\* true exactly when now is at or after the closing time of its day.
ClosingTimeIsOfTheDay ==
    resp.op = "status" =>
      /\ resp.nextClockoutTime \div HoursPerDay = now \div HoursPerDay
      /\ resp.nextClockoutTime % HoursPerDay =
            (IF (now \div HoursPerDay) % DaysPerWeek = 0 THEN 18 ELSE 20)
      /\ resp.shouldAutoClockout <=> now >= resp.nextClockoutTime

\* the status was asked on a Sunday at 18:00 sharp
StatusAtSundayClosingTime ==
    /\ resp.op = "status"
    /\ getDay(now) = 0 /\ now % HoursPerDay = 18
    /\ resp.shouldAutoClockout

\* the earliest closing time after t, looked for in the week after t
NextClosingAfter(t) ==
    Min({c \in {ClosingTimeOfDay(t + d * HoursPerDay) : d \in 0..DaysPerWeek} :
           c > t})

\* C39: getNextAutoClockoutTime(from) returns the earliest closing time
\* (20:00 from Monday to Saturday, 18:00 on a Sunday) strictly after from,
\* also when from is before the closing time of its own day.
NextIsEarliestClosingTime ==
    resp.op = "schedule" => resp.next = NextClosingAfter(now)

\* C32: CorrectEntry with markAsCorrect = true and no new clock-out leaves
\* clockOut, hoursWorked and originalClockOut of the entry as they were, sets
\* adminCorrected = true and stamps correctedBy with the id of the admin.
MarkAsCorrectKeepsTimes ==
    [][\A r \in Req :
         /\ CorrectCommit(r)
         /\ req[r].mark /\ req[r].time = Null
         /\ resp'.status = "ok"
         => LET i == req[r].target IN
            /\ entries'[i].clockOut = entries[i].clockOut
            /\ entries'[i].hoursWorked = entries[i].hoursWorked
            /\ entries'[i].originalClockOut = entries[i].originalClockOut
            /\ entries'[i].adminCorrected
            /\ entries'[i].correctedBy = req[r].admin
            /\ IsAdmin(req[r].admin)
            /\ \A j \in DOMAIN entries \ {i} : entries'[j] = entries[j]]_vars

\* an entry closed by the auto-clockout has just been marked as correct
AutoClosedEntryMarkedCorrect ==
    /\ resp.op = "correct" /\ resp.status = "ok"
    /\ resp.target \in DOMAIN entries
    /\ LET ent == entries[resp.target] IN
       /\ ent.isAutoClockOut /\ ent.adminCorrected /\ ~ent.needsReview
       /\ ent.originalClockOut = Null
       /\ ent.correctedBy \in EmpIds

\* the entries the step closes
ClosedNow ==
    {i \in DOMAIN entries :
       entries[i].clockOut = Null /\ entries'[i].clockOut # Null}

\* C33: a RunAutoClockout that writes returns clockedOutCount equal to the
\* number of entries whose clockOut its committed run changed from null, and
\* lists each of them exactly once in clockedOutEmployees, also when the
\* body of the transaction ran again after a transient failure.
CountMatchesCommittedRun ==
    [][\A r \in Req :
         AutoClockoutCommit(r) /\ resp'.op = "auto" =>
           /\ resp'.count = Cardinality(ClosedNow)
           /\ Len(resp'.closed) = Cardinality(ClosedNow)
           /\ {resp'.closed[k].entry : k \in DOMAIN resp'.closed} = ClosedNow]_vars

\* C34: for an entry closed by RunAutoClockout, after any sequence of batch
\* corrections and single corrections, originalClockOut is null or the
\* clockOut the auto-clockout wrote (here the closing time of the Saturday,
\* the only day on which the scheduled check runs in this specification).
OriginalIsAutoClockOutTime ==
    \A i \in DOMAIN entries :
      entries[i].isAutoClockOut =>
        entries[i].originalClockOut
          \in {Null, getAutoClockoutTime(SaturdayEvening)}

\* C35: every entry with adminCorrected = true has correctedBy equal to the
\* id of an employee who existed and was an admin when the correction was
\* written (no employee changes in this specification), also an entry closed
\* by the selective auto-clockout called without an adminEmployeeId.
CorrectedByIsAnAdmin ==
    \A i \in DOMAIN entries :
      entries[i].adminCorrected => IsAdmin(entries[i].correctedBy)

\* the sum of totalEntries over the groups of the employees in S
RECURSIVE GroupTotal(_, _)
GroupTotal(groups, S) ==
    IF S = {} THEN 0
    ELSE LET e == Min(S) IN groups[e].totalEntries + GroupTotal(groups, S \ {e})

\* C36: in the answer of GroupByEmployeeNeedingReview without an employee
\* filter the sum of totalEntries over the groups equals
\* stats.totalNeedsReview, also after the deletion of an employee who owns
\* entries that need review.
GroupTotalsMatchStats ==
    resp.op = "review" =>
      GroupTotal(resp.groups, DOMAIN resp.groups) = resp.count

\* C37: with CheckAndRun called every day at 18:00 and at 20:00 and every
\* call completing, every open TimeEntry is eventually closed, whatever the
\* hour of its clock-in.
OpenEntryEventuallyClosed ==
    \A i \in 1..MaxAdminEntries :
      (i \in DOMAIN entries /\ entries[i].clockOut = Null)
        ~> (i \in DOMAIN entries /\ entries[i].clockOut # Null)

\* an entry clocked in on the Sunday after that day's last call, closed by the
\* call of the Monday at 20:00
ClosedOnTheNextEvening ==
    \E i \in DOMAIN entries :
      /\ entries[i].clockIn > SundayAfternoon + 3
      /\ entries[i].clockIn < MondayEvening - ClosingHourMonSat
      /\ entries[i].clockOut = MondayEvening
      /\ entries[i].isAutoClockOut

\* C38: Bootstrap creates the first admin only when no employee exists: of
\* two bootstrap requests that run concurrently against an empty store at
\* most one creates an employee.
BootstrapOnlyIntoEmptyStore ==
    [][\A r \in Req :
         BootstrapCommit(r) => DOMAIN employees = {}]_vars
====
